---- MODULE Spec2Model ----
(***************************************************************************)
(* padclient: the Reader goroutine (readMessages), its frame classifier    *)
(* and wire codec, the cipher functions, and the Bubble Tea Consumer       *)
(* (model.Update / handleInput) that receives the Reader's events over     *)
(* the unbuffered channel messageChan.                                     *)
(*                                                                         *)
(* Text is modelled as a sequence of tokens.  The characters the code      *)
(* inspects are tokens of their own (space, colon, bar, CR, LF and every   *)
(* hex digit); a keyword or a word the code only compares as a whole is    *)
(* one token ("MESSAGE from", "BEGIN_RESPONSE", "bob").  Byte buffers are  *)
(* sequences of integers 0..255.                                           *)
(***************************************************************************)
EXTENDS Integers, Sequences, FiniteSets, TLC

VARIABLES
    readerPc,            \* position of readMessages: idle, read, send, done, panicked
    inMultiLineResponse, \* readMessages local
    multiLineBuffer,     \* readMessages local
    pending,             \* events the current loop iteration still has to send
    stopAfter,           \* the iteration ends in `return` once pending is sent
    log,                 \* what the Reader has read so far and what each read emitted
    conn,                \* m.conn: nil, open, closed
    hashedSecret,        \* m.hashedSecret
    isOperator,          \* m.isOperator
    messages,            \* m.messages (the viewport content)
    history,             \* m.history
    historyIndex,        \* m.historyIndex
    input,               \* m.input.Value()
    waiting,             \* waitForServerMessage commands blocked on <-messageChan
    inflight,            \* messages a command has returned and Update has not handled yet
    connecting,          \* the connectToServer command has not returned yet
    prog,                \* the tea.Program: running, quitting, exited, panicked
    sent,                \* lines written to the connection by handleInput
    chanBuf,             \* the buffer of messageChan
    received,            \* every message taken from messageChan so far, in order
    cipherData,          \* the byte buffer the cipher functions are called on
    cipherCalls          \* the calls of the cipher functions made on it, in order

vars == <<readerPc, inMultiLineResponse, multiLineBuffer, pending, stopAfter, log,
          conn, hashedSecret, isOperator, messages, history, historyIndex, input,
          waiting, inflight, connecting, prog, sent, chanBuf, received,
          cipherData, cipherCalls>>

readerVars == <<readerPc, inMultiLineResponse, multiLineBuffer, pending, stopAfter, log>>
chanVars == <<waiting, inflight, chanBuf, received>>
uiVars == <<history, historyIndex, input>>
cipherVars == <<cipherData, cipherCalls>>
clientVars == <<readerVars, chanVars, uiVars, conn, hashedSecret, isOperator, messages,
                connecting, prog, sent>>

----------------------------------------------------------------------------
(* Tokens *)

CR == "\r"
LF == "\n"
SP == " "
COLON == ":"
BAR == "|"

MsgKeyword == "MESSAGE from"
BcastKeyword == "BROADCAST from"
RegisteredLine == <<"REGISTERED as operator">>
KickedLine == <<"KICKED You have been kicked by the operator">>
BannedLine == <<"BANNED You have been banned by the operator">>
BeginLine == <<"BEGIN_RESPONSE">>
EndLine == <<"END_RESPONSE">>

HexDigits == <<"0", "1", "2", "3", "4", "5", "6", "7", "8", "9",
               "a", "b", "c", "d", "e", "f">>
UpperHex == <<"A", "B", "C", "D", "E", "F">>

Min(a, b) == IF a < b THEN a ELSE b

----------------------------------------------------------------------------
(* package strings *)

HasPrefix(s, p) == Len(s) >= Len(p) /\ SubSeq(s, 1, Len(p)) = p

TrimPrefix(s, p) == IF HasPrefix(s, p) THEN SubSeq(s, Len(p) + 1, Len(s)) ELSE s

\* index of the first occurrence of sep in s, 0 when there is none
Index(s, sep) ==
    LET hits == {i \in 1..(Len(s) - Len(sep) + 1) : SubSeq(s, i, i + Len(sep) - 1) = sep}
    IN IF hits = {} THEN 0 ELSE CHOOSE i \in hits : \A j \in hits : i <= j

Contains_AtStart(s, sep) == HasPrefix(s, sep)

Contains(s, sep) == Index(s, sep) # 0

SplitN2_SepHead(s, sep) ==
    LET i == Index(s, <<sep[1]>>)
    IN IF i = 0 THEN <<s>>
       ELSE <<SubSeq(s, 1, i - 1), SubSeq(s, i + 1, Len(s))>>

\* strings.SplitN(s, sep, 2)
SplitN2(s, sep) ==
    LET i == Index(s, sep)
    IN IF i = 0 THEN <<s>>
       ELSE <<SubSeq(s, 1, i - 1), SubSeq(s, i + Len(sep), Len(s))>>

TrimRight_Once(s, cutset) ==
    IF s # <<>> /\ s[Len(s)] \in cutset THEN SubSeq(s, 1, Len(s) - 1) ELSE s

RECURSIVE TrimRight(_, _)
TrimRight(s, cutset) ==
    IF s # <<>> /\ s[Len(s)] \in cutset
    THEN TrimRight(SubSeq(s, 1, Len(s) - 1), cutset)
    ELSE s

RECURSIVE Join(_, _)
Join(elems, sep) ==
    IF elems = <<>> THEN <<>>
    ELSE IF Len(elems) = 1 THEN elems[1]
    ELSE elems[1] \o sep \o Join(Tail(elems), sep)

----------------------------------------------------------------------------
(* package encoding/hex *)

HexVal(t) ==
    IF \E i \in 1..16 : HexDigits[i] = t
    THEN (CHOOSE i \in 1..16 : HexDigits[i] = t) - 1
    ELSE IF \E i \in 1..6 : UpperHex[i] = t
    THEN (CHOOSE i \in 1..6 : UpperHex[i] = t) + 9
    ELSE 16

HexErrLength == <<"encoding/hex: odd length hex string">>
HexErrInvalid(t) == <<"encoding/hex: invalid byte: ", t>>

\* hex.DecodeString: [err |-> <<>> for nil or the error text, bytes |-> decoded]
RECURSIVE HexDecodeFrom(_, _)
HexDecodeFrom(s, j) ==
    IF j > Len(s)
    THEN IF Len(s) % 2 = 1
         THEN IF HexVal(s[Len(s)]) > 15
              THEN [err |-> HexErrInvalid(s[Len(s)]), bytes |-> <<>>]
              ELSE [err |-> HexErrLength, bytes |-> <<>>]
         ELSE [err |-> <<>>, bytes |-> <<>>]
    ELSE IF HexVal(s[j - 1]) > 15 THEN [err |-> HexErrInvalid(s[j - 1]), bytes |-> <<>>]
    ELSE IF HexVal(s[j]) > 15 THEN [err |-> HexErrInvalid(s[j]), bytes |-> <<>>]
    ELSE LET rest == HexDecodeFrom(s, j + 2)
         IN [err |-> rest.err,
             bytes |-> <<16 * HexVal(s[j - 1]) + HexVal(s[j])>> \o rest.bytes]

HexDecodeString(s) ==
    LET r == HexDecodeFrom(s, 2)
    IN IF r.err = <<>> THEN r ELSE [err |-> r.err, bytes |-> <<>>]

RECURSIVE HexEncodeToString_NoLeadingZero(_)
HexEncodeToString_NoLeadingZero(b) ==
    IF b = <<>> THEN <<>>
    ELSE (IF b[1] < 16 THEN <<HexDigits[b[1] + 1]>>
          ELSE <<HexDigits[(b[1] \div 16) + 1], HexDigits[(b[1] % 16) + 1]>>)
         \o HexEncodeToString_NoLeadingZero(Tail(b))

\* hex.EncodeToString
RECURSIVE HexEncodeToString(_)
HexEncodeToString(b) ==
    IF b = <<>> THEN <<>>
    ELSE <<HexDigits[(b[1] \div 16) + 1], HexDigits[(b[1] % 16) + 1]>>
         \o HexEncodeToString(Tail(b))

----------------------------------------------------------------------------
(* encryption.go *)

BlockSize == 16

\* a ^ b on bytes
RECURSIVE BXor(_, _)
BXor(a, b) ==
    IF a = 0 THEN b
    ELSE IF b = 0 THEN a
    ELSE 2 * BXor(a \div 2, b \div 2) + ((a + b) % 2)

\* a Go run-time panic inside a function is the result [panic |-> TRUE]

encryptXOR_FirstKeyByte(message, key) ==
    [panic |-> message # <<>> /\ key = <<>>,
     out |-> IF key = <<>> THEN <<>>
             ELSE [i \in 1..Len(message) |-> BXor(message[i], key[1])]]

encryptXOR_Add(message, key) ==
    IF Len(key) < Len(message)
    THEN [panic |-> TRUE, out |-> <<>>]
    ELSE [panic |-> FALSE, out |-> [i \in 1..Len(message) |-> (message[i] + key[i]) % 256]]

\* encryptXOR: key[i] is out of range when the key is shorter than the message
encryptXOR(message, key) ==
    IF Len(key) < Len(message)
    THEN [panic |-> TRUE, out |-> <<>>]
    ELSE [panic |-> FALSE, out |-> [i \in 1..Len(message) |-> BXor(message[i], key[i])]]

\* aes.NewCipher: the error for a key that is not 16, 24 or 32 bytes long
AesKeyError(key) ==
    IF Len(key) \in {16, 24, 32} THEN <<>>
    ELSE <<"crypto/aes: invalid key size ", ToString(Len(key))>>

\* cipher.Block of crypto/aes.  AES itself is not reproduced: Encrypt is a keyed
\* permutation of the 16-byte blocks and Decrypt is its inverse, which is all the
\* client relies on.
AesEncryptBlock(key, b) ==
    [i \in 1..BlockSize |-> (b[i] + key[((i - 1) % Len(key)) + 1] + i) % 256]

AesDecryptBlock(key, b) ==
    [i \in 1..BlockSize |-> (b[i] + 512 - key[((i - 1) % Len(key)) + 1] - i) % 256]

XorBlock(a, b) == [i \in 1..BlockSize |-> BXor(a[i], b[i])]

\* cipher.NewCBCEncrypter(block, iv).CryptBlocks on a whole number of blocks
RECURSIVE CBCEncrypt(_, _, _)
CBCEncrypt(key, prev, data) ==
    IF data = <<>> THEN <<>>
    ELSE LET c == AesEncryptBlock(key, XorBlock(SubSeq(data, 1, BlockSize), prev))
         IN c \o CBCEncrypt(key, c, SubSeq(data, BlockSize + 1, Len(data)))

\* cipher.NewCBCDecrypter(block, iv).CryptBlocks on a whole number of blocks
RECURSIVE CBCDecrypt(_, _, _)
CBCDecrypt(key, prev, data) ==
    IF data = <<>> THEN <<>>
    ELSE LET c == SubSeq(data, 1, BlockSize)
         IN XorBlock(AesDecryptBlock(key, c), prev)
            \o CBCDecrypt(key, c, SubSeq(data, BlockSize + 1, Len(data)))

encryptAES_NoPadWhenAligned(key, plaintext, iv) ==
    IF AesKeyError(key) # <<>>
    THEN [err |-> AesKeyError(key), out |-> <<>>]
    ELSE LET padding == (BlockSize - (Len(plaintext) % BlockSize)) % BlockSize
             padded == plaintext \o [i \in 1..padding |-> padding]
         IN [err |-> <<>>, out |-> iv \o CBCEncrypt(key, iv, padded)]

\* encryptAES; iv is what rand.Reader delivers
encryptAES(key, plaintext, iv) ==
    IF AesKeyError(key) # <<>>
    THEN [err |-> AesKeyError(key), out |-> <<>>]
    ELSE LET padding == BlockSize - (Len(plaintext) % BlockSize)
             padded == plaintext \o [i \in 1..padding |-> padding]
         IN [err |-> <<>>, out |-> iv \o CBCEncrypt(key, iv, padded)]

\* decryptAES: [err, panic, out].  CryptBlocks panics on input that is not a whole
\* number of blocks; indexing the last byte of empty data panics; slicing with a
\* padding length beyond the data panics.
decryptAES(key, ciphertext) ==
    IF Len(ciphertext) < BlockSize
    THEN [err |-> <<"ciphertext too short">>, panic |-> FALSE, out |-> <<>>]
    ELSE IF AesKeyError(key) # <<>>
    THEN [err |-> AesKeyError(key), panic |-> FALSE, out |-> <<>>]
    ELSE LET iv == SubSeq(ciphertext, 1, BlockSize)
             ciphertextData == SubSeq(ciphertext, BlockSize + 1, Len(ciphertext))
         IN IF Len(ciphertextData) % BlockSize # 0
            THEN [err |-> <<>>, panic |-> TRUE, out |-> <<>>]
            ELSE IF ciphertextData = <<>>
            THEN [err |-> <<>>, panic |-> TRUE, out |-> <<>>]
            ELSE LET plain == CBCDecrypt(key, iv, ciphertextData)
                     paddingLength == plain[Len(plain)]
                 IN IF paddingLength > Len(plain)
                    THEN [err |-> <<>>, panic |-> TRUE, out |-> <<>>]
                    ELSE [err |-> <<>>, panic |-> FALSE,
                          out |-> SubSeq(plain, 1, Len(plain) - paddingLength)]

----------------------------------------------------------------------------
(* tea.Msg values of main.go.  All share one record shape: content holds the  *)
(* text of a serverMsg / operatorMsg, bytes the content of an incomingMessage *)
(* (string(plaintext), kept as the bytes).                                    *)

Msg(type, senderID, content, bytes, isBroadcast) ==
    [type |-> type, senderID |-> senderID, content |-> content, bytes |-> bytes,
     isBroadcast |-> isBroadcast]

serverMsg(content) == Msg("serverMsg", <<>>, content, <<>>, FALSE)
operatorMsg(content) == Msg("operatorMsg", <<>>, content, <<>>, FALSE)
kickedMsg == Msg("kickedMsg", <<>>, <<>>, <<>>, FALSE)
bannedMsg == Msg("bannedMsg", <<>>, <<>>, <<>>, FALSE)
disconnectMsg == Msg("disconnectMsg", <<>>, <<>>, <<>>, FALSE)
incomingMessage(senderID, bytes, isBroadcast) ==
    Msg("incomingMessage", senderID, <<>>, bytes, isBroadcast)

----------------------------------------------------------------------------
(* message_handler.go: one iteration of the loop of readMessages on a line   *)
(* that was read.  The result is what the iteration does:                    *)
(*   evs    the messages it sends on messageChan, in order                   *)
(*   inML, buf   inMultiLineResponse and multiLineBuffer afterwards          *)
(*   stop   it ends in `return`                                              *)
(*   panic  it ends in a run-time panic                                      *)
(*   xor    the <<len(message), len(key)>> of every encryptXOR call          *)
(*   aes    the len(ciphertext) of every decryptAES call                      *)

Step(evs, inML, buf) ==
    [evs |-> evs, inML |-> inML, buf |-> buf, stop |-> FALSE, panic |-> FALSE, xor |-> <<>>,
     aes |-> <<>>]

LengthsMatch_Unchecked(key, ciphertext) == TRUE

\* lines 115 and 166: the guard in front of encryptXOR
LengthsMatch(key, ciphertext) == Len(key) = Len(ciphertext)

\* line 62: the notice that ends a multi-line response
CaptureNotice(buf) == serverMsg(Join(buf, <<LF>>))

Capture_Prepend(buf, message) == <<message>> \o buf

Capture_SkipEnvelopes(buf, message) ==
    IF HasPrefix(message, <<MsgKeyword>>) \/ HasPrefix(message, <<BcastKeyword>>)
    THEN buf ELSE Append(buf, message)

\* line 67: a line of a multi-line response
Capture(buf, message) == Append(buf, message)

\* the XOR payload key_hex|ciphertext_hex of a direct message (lines 144-175) or
\* of a broadcast (lines 93-124); the two differ in the texts only
DecodeXORPayload(encryptedData, senderID, isBroadcast, inML, buf) ==
    LET dataParts == SplitN2(encryptedData, <<BAR>>)
        badFormat == IF isBroadcast THEN "Invalid broadcast message format from "
                     ELSE "Invalid message format from "
        badKey == IF isBroadcast THEN "Error decoding key from broadcast from "
                  ELSE "Error decoding key from "
        badCiphertext == IF isBroadcast THEN "Error decoding ciphertext from broadcast from "
                         ELSE "Error decoding ciphertext from "
        badLengths == IF isBroadcast
                      THEN "Key and ciphertext lengths do not match in broadcast from "
                      ELSE "Key and ciphertext lengths do not match from "
    IN IF Len(dataParts) # 2
       THEN Step(<<serverMsg(<<badFormat>> \o senderID \o <<". Ignoring.">>)>>, inML, buf)
       ELSE LET key == HexDecodeString(dataParts[1])
                ciphertext == HexDecodeString(dataParts[2])
            IN IF key.err # <<>>
               THEN Step(<<serverMsg(<<badKey>> \o senderID \o <<": ">> \o key.err)>>,
                         inML, buf)
               ELSE IF ciphertext.err # <<>>
               THEN Step(<<serverMsg(<<badCiphertext>> \o senderID \o <<": ">>
                                      \o ciphertext.err)>>, inML, buf)
               ELSE IF ~LengthsMatch(key.bytes, ciphertext.bytes)
               THEN Step(<<serverMsg(<<badLengths>> \o senderID \o <<".">>)>>, inML, buf)
               ELSE LET plaintext == encryptXOR(ciphertext.bytes, key.bytes)
                        call == <<<<Len(ciphertext.bytes), Len(key.bytes)>>>>
                    IN IF plaintext.panic
                       THEN [Step(<<>>, inML, buf) EXCEPT !.panic = TRUE, !.xor = call]
                       ELSE [Step(<<incomingMessage(senderID, plaintext.out, isBroadcast)>>,
                                  inML, buf) EXCEPT !.xor = call]

DecodeAESPayload_DecryptAnyway(encryptedData, senderID, secret, inML, buf) ==
    LET plaintext == decryptAES(secret, HexDecodeString(encryptedData).bytes)
    IN [Step(IF plaintext.panic THEN <<>>
             ELSE IF plaintext.err # <<>>
             THEN <<serverMsg(<<"Error decrypting broadcast from ">> \o senderID
                              \o <<": ">> \o plaintext.err)>>
             ELSE <<incomingMessage(senderID, plaintext.out, TRUE)>>, inML, buf)
        EXCEPT !.panic = plaintext.panic,
               !.aes = <<Len(HexDecodeString(encryptedData).bytes)>>]

\* the block-cipher payload of a broadcast (lines 126-141)
DecodeAESPayload(encryptedData, senderID, secret, inML, buf) ==
    LET ciphertext == HexDecodeString(encryptedData)
    IN IF ciphertext.err # <<>>
       THEN Step(<<serverMsg(<<"Error decoding broadcast from ">> \o senderID
                              \o <<": ">> \o ciphertext.err)>>, inML, buf)
       ELSE LET plaintext == decryptAES(secret, ciphertext.bytes)
                call == <<Len(ciphertext.bytes)>>
            IN IF plaintext.panic
               THEN [Step(<<>>, inML, buf) EXCEPT !.panic = TRUE, !.aes = call]
               ELSE IF plaintext.err # <<>>
               THEN [Step(<<serverMsg(<<"Error decrypting broadcast from ">> \o senderID
                                       \o <<": ">> \o plaintext.err)>>, inML, buf)
                     EXCEPT !.aes = call]
               ELSE [Step(<<incomingMessage(senderID, plaintext.out, TRUE)>>, inML, buf)
                     EXCEPT !.aes = call]

\* lines 72-176: a line with the MESSAGE from / BROADCAST from prefix
ClassifyEnvelope(message, secret, inML, buf) ==
    LET parts == SplitN2(message, <<COLON, SP>>)
    IN IF Len(parts) # 2
       THEN Step(<<serverMsg(<<"Invalid message format. Ignoring.">>)>>, inML, buf)
       ELSE LET senderInfo == parts[1]
                encryptedData == parts[2]
                isBroadcast == ~HasPrefix(senderInfo, <<MsgKeyword>>)
                                /\ HasPrefix(senderInfo, <<BcastKeyword>>)
                senderID ==
                    IF HasPrefix(senderInfo, <<MsgKeyword>>)
                    THEN TrimPrefix(senderInfo, <<MsgKeyword, SP>>)
                    ELSE IF HasPrefix(senderInfo, <<BcastKeyword>>)
                    THEN TrimPrefix(senderInfo, <<BcastKeyword, SP>>)
                    ELSE <<>>
            IN IF isBroadcast
               THEN IF Contains(encryptedData, <<BAR>>)
                    THEN DecodeXORPayload(encryptedData, senderID, TRUE, inML, buf)
                    ELSE DecodeAESPayload(encryptedData, senderID, secret, inML, buf)
               ELSE DecodeXORPayload(encryptedData, senderID, FALSE, inML, buf)

Classify_CaptureFirst(raw, secret, inML, buf) ==
    LET message == TrimRight(raw, {CR, LF})
    IN IF message = <<>> THEN Step(<<>>, inML, buf)
       ELSE IF message = BeginLine THEN Step(<<>>, TRUE, <<>>)
       ELSE IF message = EndLine THEN Step(<<CaptureNotice(buf)>>, FALSE, buf)
       ELSE IF inML THEN Step(<<>>, inML, Capture(buf, message))
       ELSE IF message = RegisteredLine
       THEN Step(<<operatorMsg(<<"You are registered as the server operator.">>)>>, inML, buf)
       ELSE IF message = KickedLine
       THEN [Step(<<kickedMsg>>, inML, buf) EXCEPT !.stop = TRUE]
       ELSE IF message = BannedLine
       THEN [Step(<<bannedMsg>>, inML, buf) EXCEPT !.stop = TRUE]
       ELSE IF HasPrefix(message, <<MsgKeyword>>) \/ HasPrefix(message, <<BcastKeyword>>)
       THEN ClassifyEnvelope(message, secret, inML, buf)
       ELSE Step(<<serverMsg(message)>>, inML, buf)

\* lines 28-181: the loop body after a successful ReadString
Classify(raw, secret, inML, buf) ==
    LET message == TrimRight(raw, {CR, LF})
    IN IF message = <<>> THEN Step(<<>>, inML, buf)
       ELSE IF message = RegisteredLine
       THEN Step(<<operatorMsg(<<"You are registered as the server operator.">>)>>, inML, buf)
       ELSE IF message = KickedLine
       THEN [Step(<<kickedMsg>>, inML, buf) EXCEPT !.stop = TRUE]
       ELSE IF message = BannedLine
       THEN [Step(<<bannedMsg>>, inML, buf) EXCEPT !.stop = TRUE]
       ELSE IF message = BeginLine THEN Step(<<>>, TRUE, <<>>)
       ELSE IF message = EndLine
       THEN Step(<<CaptureNotice(buf)>>, FALSE, buf)
       ELSE IF inML THEN Step(<<>>, inML, Capture(buf, message))
       ELSE IF HasPrefix(message, <<MsgKeyword>>) \/ HasPrefix(message, <<BcastKeyword>>)
       THEN ClassifyEnvelope(message, secret, inML, buf)
       ELSE Step(<<serverMsg(message)>>, inML, buf)

----------------------------------------------------------------------------
(* The Reader goroutine *)

\* what setupClient hands over as hashedSecret: a 32-byte key
SharedSecret == [i \in 1..32 |-> (7 * i) % 256]

ChanCap_Buffered == 0 + 1

\* make(chan tea.Msg): the capacity of messageChan
ChanCap == 0

LogLine(raw, r, inML) ==
    [kind |-> "line", raw |-> raw, evs |-> r.evs, panic |-> r.panic, xor |-> r.xor,
     aes |-> r.aes, inML |-> inML]

ReadFailure_Retry(inML, buf) == Step(<<disconnectMsg>>, inML, buf)

\* lines 24-27: what the loop does when ReadString fails
ReadFailure(inML, buf) == [Step(<<disconnectMsg>>, inML, buf) EXCEPT !.stop = TRUE]

LogError(r, inML) ==
    [kind |-> "error", raw |-> <<>>, evs |-> r.evs, panic |-> FALSE, xor |-> <<>>,
     aes |-> <<>>, inML |-> inML]

AfterSend_Continue(stop) == "read"

\* where the loop goes once it has nothing left to send
AfterSend(stop) == IF stop THEN "done" ELSE "read"

\* lines 23, 28-181: ReadString returns the line raw (from the socket, or from what
\* bufio already holds when the socket was closed under it) and the loop body runs
\* up to its first channel send
ReaderRead(raw) ==
    /\ readerPc = "read"
    /\ prog # "panicked"
    /\ LET r == Classify(raw, hashedSecret, inMultiLineResponse, multiLineBuffer)
       IN /\ log' = Append(log, LogLine(raw, r, inMultiLineResponse))
          /\ inMultiLineResponse' = r.inML
          /\ multiLineBuffer' = r.buf
          /\ pending' = r.evs
          /\ stopAfter' = r.stop
          /\ readerPc' = IF r.panic THEN "panicked"
                         ELSE IF r.evs # <<>> THEN "send" ELSE AfterSend(r.stop)
          \* an unrecovered panic in a goroutine ends the process
          /\ prog' = IF r.panic THEN "panicked" ELSE prog
    /\ UNCHANGED <<cipherVars, conn, hashedSecret, isOperator, messages, uiVars, chanVars,
                   connecting, sent>>

\* lines 23-27: ReadString fails (the peer closed or reset the stream, or the
\* Consumer closed the socket)
ReaderReadFail ==
    /\ readerPc = "read"
    /\ prog # "panicked"
    /\ LET r == ReadFailure(inMultiLineResponse, multiLineBuffer)
       IN /\ log' = Append(log, LogError(r, inMultiLineResponse))
          /\ pending' = r.evs
          /\ stopAfter' = r.stop
          /\ readerPc' = "send"
    /\ UNCHANGED <<cipherVars, inMultiLineResponse, multiLineBuffer, conn, hashedSecret,
                   isOperator, messages, uiVars, chanVars, connecting, prog, sent>>

\* messageChan: a send `messageChan <- msg` of the Reader and a receive
\* `<-messageChan` of a waitForServerMessage command (main.go 634-638).  With
\* capacity 0 the two meet in one step.
ChannelStep ==
    /\ prog # "panicked"
    /\ IF chanBuf # <<>> /\ waiting > 0
       THEN /\ inflight' = Append(inflight, Head(chanBuf))
            /\ received' = Append(received, Head(chanBuf))
            /\ chanBuf' = Tail(chanBuf)
            /\ waiting' = waiting - 1
            /\ UNCHANGED <<pending, readerPc>>
       ELSE /\ readerPc = "send"
            /\ pending # <<>>
            /\ IF Len(chanBuf) < ChanCap
               THEN /\ chanBuf' = Append(chanBuf, Head(pending))
                    /\ UNCHANGED <<inflight, received, waiting>>
               ELSE /\ waiting > 0
                    /\ inflight' = Append(inflight, Head(pending))
                    /\ received' = Append(received, Head(pending))
                    /\ waiting' = waiting - 1
                    /\ UNCHANGED chanBuf
            /\ pending' = Tail(pending)
            /\ readerPc' = IF Tail(pending) # <<>> THEN "send" ELSE AfterSend(stopAfter)
    /\ UNCHANGED <<cipherVars, inMultiLineResponse, multiLineBuffer, stopAfter, log, conn,
                   hashedSecret, isOperator, messages, uiVars, connecting, prog, sent>>

----------------------------------------------------------------------------
(* The Consumer: model.Update and model.handleInput of main.go *)

IsSpace(t) == t \in {SP, CR, LF, "\t"}

RECURSIVE TrimLeftSpace(_)
TrimLeftSpace(s) == IF s # <<>> /\ IsSpace(s[1]) THEN TrimLeftSpace(Tail(s)) ELSE s

\* strings.TrimSpace
TrimSpace(s) == TrimRight(TrimLeftSpace(s), {SP, CR, LF, "\t"})

\* strings.Fields: the maximal runs of non-space tokens
RECURSIVE FieldsFrom(_, _)
FieldsFrom(s, cur) ==
    IF s = <<>> THEN (IF cur = <<>> THEN <<>> ELSE <<cur>>)
    ELSE IF IsSpace(s[1])
    THEN (IF cur = <<>> THEN <<>> ELSE <<cur>>) \o FieldsFrom(Tail(s), <<>>)
    ELSE FieldsFrom(Tail(s), Append(cur, s[1]))

Fields(s) == FieldsFrom(s, <<>>)

\* []byte(text) for the words a user types in the model
WordBytes(t) ==
    CASE t = SP -> <<32>>
      [] t = "hi" -> <<104, 105>>
      [] t = "ok" -> <<111, 107>>
      [] OTHER -> <<63>>

RECURSIVE TextBytes(_)
TextBytes(s) == IF s = <<>> THEN <<>> ELSE WordBytes(s[1]) \o TextBytes(Tail(s))

\* what crypto/rand delivers for a request of n bytes, by seed
RandSeeds == {0, 77}
RandBytes(n, seed) == [i \in 1..n |-> (seed * i + seed) % 256]

\* one line of m.messages: text followed by string(bytes)
Shown(text, bytes) == [text |-> text, bytes |-> bytes]

\* handleInput (lines 524-599) as the effects of the call:
\*   hist    m.history afterwards
\*   shown   the lines appended with appendMessage
\*   write   the line handed to fmt.Fprintf(m.conn, ...), <<>> when there is none
\*   close   m.conn.Close() is reached
\*   quit    it returns tea.Quit
handleInput(in, seed) ==
    LET parts == Fields(in)
        out(shown, write, close, quit) ==
            [hist |-> IF in # <<>> THEN Append(history, in) ELSE history,
             shown |-> shown, write |-> write, close |-> close, quit |-> quit]
    IN IF Len(parts) = 0
       THEN [hist |-> history, shown |-> <<>>, write |-> <<>>, close |-> FALSE,
             quit |-> FALSE]
       ELSE IF parts[1] = <<"SEND">>
       THEN IF Len(parts) < 3
            THEN out(<<Shown(<<"Invalid SEND command. Use: SEND <RecipientID|ALL> <Message>">>,
                              <<>>)>>, <<>>, FALSE, FALSE)
            ELSE LET recipientID == parts[2]
                     messageText == Join(SubSeq(parts, 3, Len(parts)), <<SP>>)
                     plaintext == TextBytes(messageText)
                 IN IF recipientID = <<"ALL">>
                    THEN LET enc == encryptAES(hashedSecret, plaintext,
                                               RandBytes(BlockSize, seed))
                         IN IF enc.err # <<>>
                            THEN out(<<Shown(<<"Error encrypting message: ">> \o enc.err,
                                             <<>>)>>, <<>>, FALSE, FALSE)
                            ELSE out(<<>>, <<"SEND", SP, "ALL", SP>>
                                           \o HexEncodeToString(enc.out) \o <<LF>>,
                                     FALSE, FALSE)
                    ELSE LET key == RandBytes(Len(plaintext), seed)
                             ciphertext == encryptXOR(plaintext, key).out
                             encryptedData == HexEncodeToString(key) \o <<BAR>>
                                              \o HexEncodeToString(ciphertext)
                         IN out(<<>>, <<"SEND", SP>> \o recipientID \o <<SP>>
                                      \o encryptedData \o <<LF>>, FALSE, FALSE)
       ELSE IF parts[1] = <<"HELP">>
       THEN out(<<Shown(<<"Available commands:">>, <<>>),
                  Shown(<<"SEND <RecipientID|ALL> <Message> - Send a message">>, <<>>),
                  Shown(<<"HELP - Print this help text">>, <<>>),
                  Shown(<<"EXIT - Exit the program">>, <<>>)>>, <<>>, FALSE, FALSE)
       ELSE IF parts[1] = <<"EXIT">>
       THEN out(<<>>, <<"EXIT", LF>>, TRUE, TRUE)
       ELSE out(<<>>, in \o <<LF>>, FALSE, FALSE)

Running == prog \in {"running", "quitting"}

\* m.conn.Close() under `if m.conn != nil`
Closed(c) == IF c = "nil" THEN "nil" ELSE "closed"

\* lines 391-396: Ctrl+C or Esc
KeyQuit ==
    /\ Running
    /\ conn' = Closed(conn)
    /\ prog' = "quitting"
    /\ UNCHANGED <<cipherVars, readerVars, chanVars, hashedSecret, isOperator, messages, uiVars,
                   connecting, sent>>

\* lines 437-444: a key with runes goes to the text input and ends the navigation
KeyRunes(text) ==
    /\ Running
    /\ input' = input \o text
    /\ historyIndex' = -1
    /\ UNCHANGED <<cipherVars, readerVars, chanVars, conn, hashedSecret, isOperator, messages,
                   history, connecting, prog, sent>>

KeyEnter_WritesDespiteError ==
    /\ Running
    /\ \E seed \in RandSeeds :
         LET r == handleInput(TrimSpace(input), seed)
             line == IF r.write # <<>> THEN r.write ELSE TrimSpace(input) \o <<LF>>
             panics == conn = "nil" /\ r.hist # history
         IN /\ input' = <<>>
            /\ history' = r.hist
            /\ historyIndex' = -1
            /\ messages' = messages \o r.shown
            /\ sent' = IF conn = "open" /\ r.hist # history THEN Append(sent, line) ELSE sent
            /\ conn' = IF r.close /\ ~panics THEN Closed(conn) ELSE conn
            /\ prog' = IF panics THEN "panicked"
                       ELSE IF r.quit THEN "quitting" ELSE prog
    /\ UNCHANGED <<cipherVars, readerVars, chanVars, hashedSecret, isOperator, connecting>>

\* lines 397-401 and handleInput: Enter.  fmt.Fprintf on a nil m.conn panics; on a
\* closed one the write fails and the error is dropped.
KeyEnter ==
    /\ Running
    /\ \E seed \in RandSeeds :
         LET r == handleInput(TrimSpace(input), seed)
             panics == r.write # <<>> /\ conn = "nil"
         IN /\ input' = <<>>
            /\ history' = r.hist
            /\ historyIndex' = -1
            /\ messages' = messages \o r.shown
            /\ sent' = IF r.write # <<>> /\ conn = "open" THEN Append(sent, r.write)
                       ELSE sent
            /\ conn' = IF r.close /\ ~panics THEN Closed(conn) ELSE conn
            /\ prog' = IF panics THEN "panicked"
                       ELSE IF r.quit THEN "quitting" ELSE prog
    /\ UNCHANGED <<cipherVars, readerVars, chanVars, hashedSecret, isOperator, connecting>>

KeyUp_Wraps ==
    /\ Running
    /\ IF Len(history) > 0
       THEN /\ historyIndex' = IF historyIndex <= 0 THEN Len(history) - 1
                               ELSE historyIndex - 1
            /\ input' = history[historyIndex' + 1]
       ELSE UNCHANGED <<historyIndex, input>>
    /\ UNCHANGED <<cipherVars, readerVars, chanVars, conn, hashedSecret, isOperator, messages,
                   history, connecting, prog, sent>>

\* lines 402-412: Up.  m.historyIndex counts from 0, history[n + 1] is m.history[n]
KeyUp ==
    /\ Running
    /\ IF Len(history) > 0
       THEN /\ historyIndex' = IF historyIndex = -1 THEN Len(history) - 1
                               ELSE IF historyIndex > 0 THEN historyIndex - 1
                               ELSE historyIndex
            /\ input' = history[historyIndex' + 1]
       ELSE UNCHANGED <<historyIndex, input>>
    /\ UNCHANGED <<cipherVars, readerVars, chanVars, conn, hashedSecret, isOperator, messages,
                   history, connecting, prog, sent>>

KeyDown_PastTheEnd ==
    /\ Running
    /\ IF Len(history) > 0 /\ historyIndex # -1
       THEN IF historyIndex < Len(history) - 1
            THEN /\ historyIndex' = historyIndex + 1
                 /\ input' = history[historyIndex' + 1]
            ELSE /\ historyIndex' = Len(history)
                 /\ input' = <<>>
       ELSE UNCHANGED <<historyIndex, input>>
    /\ UNCHANGED <<cipherVars, readerVars, chanVars, conn, hashedSecret, isOperator, messages,
                   history, connecting, prog, sent>>

\* lines 413-424: Down
KeyDown ==
    /\ Running
    /\ IF Len(history) > 0 /\ historyIndex # -1
       THEN IF historyIndex < Len(history) - 1
            THEN /\ historyIndex' = historyIndex + 1
                 /\ input' = history[historyIndex' + 1]
            ELSE /\ historyIndex' = -1
                 /\ input' = <<>>
       ELSE UNCHANGED <<historyIndex, input>>
    /\ UNCHANGED <<cipherVars, readerVars, chanVars, conn, hashedSecret, isOperator, messages,
                   history, connecting, prog, sent>>

\* lines 437-444: Backspace goes to the text input, which deletes the character
\* before the cursor (the cursor is at the end); the key has no runes, so
\* m.historyIndex stays
KeyBackspace ==
    /\ Running
    /\ input # <<>>
    /\ input' = SubSeq(input, 1, Len(input) - 1)
    /\ UNCHANGED <<cipherVars, readerVars, chanVars, conn, hashedSecret, isOperator, messages,
                   history, historyIndex, connecting, prog, sent>>

WaitCmds_Two(type) ==
    IF type \in {"connectedMsg", "serverMsg", "operatorMsg", "incomingMessage"}
    THEN 2 ELSE 0

WaitCmds_Batch(type) ==
    IF type \in {"connectedMsg", "operatorMsg", "incomingMessage"} THEN 1
    ELSE IF type = "serverMsg" THEN 2 ELSE 0

\* the waitForServerMessage commands Update returns for a message (lines 460-501)
WaitCmds(type) ==
    IF type \in {"connectedMsg", "serverMsg", "operatorMsg", "incomingMessage"}
    THEN 1 ELSE 0

\* the messages after which Update closes the connection and returns tea.Quit
Terminal(type) == type \in {"kickedMsg", "bannedMsg", "disconnectMsg", "errMsg"}

\* the line appendMessage gets for a message (lines 461-501)
ShownFor(msg) ==
    CASE msg.type \in {"serverMsg", "operatorMsg"} -> Shown(msg.content, <<>>)
      [] msg.type = "incomingMessage" ->
            Shown(<<IF msg.isBroadcast THEN "Broadcast from " ELSE "Message from ">>
                  \o msg.senderID \o <<COLON, SP>>, msg.bytes)
      [] msg.type = "kickedMsg" ->
            Shown(<<"You have been kicked from the server by the operator.">>, <<>>)
      [] msg.type = "bannedMsg" ->
            Shown(<<"You have been banned from the server by the operator.">>, <<>>)
      [] msg.type = "disconnectMsg" -> Shown(<<"Disconnected from server.">>, <<>>)
      [] OTHER -> Shown(<<"Error: ">> \o msg.content, <<>>)

\* lines 446-460: connectToServer returned a connectedMsg and Update handles it,
\* starting the Reader and asking for its first message
UpdateConnected(op) ==
    /\ Running
    /\ connecting
    /\ connecting' = FALSE
    /\ conn' = "open"
    /\ hashedSecret' = SharedSecret
    /\ isOperator' = op
    /\ readerPc' = "read"
    /\ messages' = messages \o
         <<Shown(<<"Connected to the server. Type your commands below:">>, <<>>),
           Shown(<<IF op THEN "You are the server operator. Type HELP to see available commands."
                   ELSE "Type HELP to see available commands.">>, <<>>)>>
    /\ waiting' = waiting + WaitCmds("connectedMsg")
    /\ UNCHANGED <<cipherVars, inMultiLineResponse, multiLineBuffer, pending, stopAfter, log,
                   uiVars, inflight, chanBuf, received, prog, sent>>

\* lines 502-508: connectToServer returned an errMsg
UpdateErr ==
    /\ Running
    /\ connecting
    /\ connecting' = FALSE
    /\ messages' = Append(messages, ShownFor(Msg("errMsg", <<>>, <<"dial">>, <<>>, FALSE)))
    /\ conn' = Closed(conn)
    /\ prog' = "quitting"
    /\ UNCHANGED <<cipherVars, readerVars, chanVars, hashedSecret, isOperator, uiVars, sent>>

\* lines 461-501: Update handles a message that a waitForServerMessage command
\* returned
UpdateMsg ==
    /\ Running
    /\ \E i \in DOMAIN inflight :
         LET msg == inflight[i]
         IN /\ inflight' = SubSeq(inflight, 1, i - 1) \o SubSeq(inflight, i + 1, Len(inflight))
            /\ messages' = Append(messages, ShownFor(msg))
            /\ isOperator' = IF msg.type = "operatorMsg" THEN TRUE ELSE isOperator
            /\ waiting' = waiting + WaitCmds(msg.type)
            /\ conn' = IF Terminal(msg.type) THEN Closed(conn) ELSE conn
            /\ prog' = IF Terminal(msg.type) THEN "quitting" ELSE prog
    /\ UNCHANGED <<cipherVars, readerVars, chanBuf, received, hashedSecret, uiVars,
                   connecting, sent>>

\* the quitMsg of tea.Quit reaches the event loop: p.Start() returns (line 356)
ProgramQuit ==
    /\ prog = "quitting"
    /\ prog' = "exited"
    /\ UNCHANGED <<cipherVars, readerVars, chanVars, conn, hashedSecret, isOperator, messages,
                   uiVars, connecting, sent>>

----------------------------------------------------------------------------
(* The system *)

\* lines 349-352 and Init (362-382): nothing is connected yet
NotConnected ==
    /\ readerPc = "idle"
    /\ inMultiLineResponse = FALSE
    /\ multiLineBuffer = <<>>
    /\ pending = <<>>
    /\ stopAfter = FALSE
    /\ log = <<>>
    /\ conn = "nil"
    /\ hashedSecret = <<>>
    /\ isOperator = FALSE
    /\ messages = <<>>
    /\ history = <<>>
    /\ historyIndex = -1
    /\ input = <<>>
    /\ waiting = 0
    /\ inflight = <<>>
    /\ connecting = TRUE
    /\ prog = "running"
    /\ sent = <<>>
    /\ chanBuf = <<>>
    /\ received = <<>>

Init == NotConnected /\ cipherData = <<>> /\ cipherCalls = <<>>

\* bounds of the model
MaxLines == 3
MaxInputTokens == 1
MaxHistory == 1

Line(body) == Append(body, LF)
LineCRLF(body) == body \o <<CR, LF>>
Envelope(keyword, id, payload) == <<keyword, SP>> \o id \o <<COLON, SP>> \o payload

\* what the server sends in the runs of Spec
PipeLines ==
    {Line(<<"hello">>), Line(KickedLine), LineCRLF(BannedLine), Line(BeginLine),
     Line(EndLine), Line(Envelope(MsgKeyword, <<"bob">>, <<"0", "1", BAR, "0", "3">>))}

\* what the user types in the runs of Spec
PipeTyped == {<<"EXIT">>}

Consumer ==
    \/ \E op \in BOOLEAN : UpdateConnected(op)
    \/ UpdateErr
    \/ UpdateMsg
    \/ ProgramQuit

Keys(typed) ==
    \/ KeyQuit
    \/ \E text \in typed : Len(input) + Len(text) <= MaxInputTokens /\ KeyRunes(text)
    \/ Len(history) < MaxHistory /\ KeyEnter

Reader(lines, max) ==
    \/ \E raw \in lines : Len(log) < max /\ ReaderRead(raw)
    \/ ReaderReadFail
    \/ ChannelStep

Next == Reader(PipeLines, MaxLines) \/ Consumer \/ Keys(PipeTyped)

Spec == Init /\ [][Next]_vars

\* the goroutines are scheduled, the event loop handles what it is given, and a
\* read on a socket this process closed returns its error
Fairness ==
    /\ WF_vars(ChannelStep)
    /\ WF_vars(UpdateMsg)
    /\ WF_vars(ProgramQuit)
    /\ WF_vars(conn = "closed" /\ ReaderReadFail)

FairSpec == Spec /\ Fairness

----------------------------------------------------------------------------
(* The Reader on multi-line responses: the Consumer only receives *)

MaxCaptureLines == 4

CaptureLines ==
    {Line(BeginLine), LineCRLF(EndLine), Line(<<"a">>), LineCRLF(<<"b", SP, "c">>),
     <<LF>>, <<CR, LF>>,
     Line(Envelope(MsgKeyword, <<"bob">>, <<"0", "1", BAR, "0", "3">>)),
     LineCRLF(Envelope(BcastKeyword, <<"bob">>, <<"z", "z">>))}

NextCapture == Reader(CaptureLines, MaxCaptureLines) \/ Consumer

CaptureSpec == Init /\ [][NextCapture]_vars

----------------------------------------------------------------------------
(* The Reader on the operator, kicked and banned lines in and around a        *)
(* multi-line response: the Consumer only receives                            *)

MaxSentinelLines == 4

SentinelLines ==
    {Line(BeginLine), Line(EndLine), Line(<<"a">>), Line(RegisteredLine),
     LineCRLF(KickedLine), Line(BannedLine)}

NextSentinel == Reader(SentinelLines, MaxSentinelLines) \/ Consumer

SentinelSpec == Init /\ [][NextSentinel]_vars

----------------------------------------------------------------------------
(* The Reader on MESSAGE and BROADCAST lines: the Consumer only receives *)

MaxDecodeLines == 2

Bob == <<"bob">>
SampleIV == RandBytes(BlockSize, 77)

\* a block whose last byte, read as a padding length, exceeds the data
OverPadded == [i \in 1..BlockSize |-> IF i = BlockSize THEN 200 ELSE 65]

\* key and ciphertext pairs of equal length, and the lines that carry them
DirectSamples ==
    {[id |-> Bob, k |-> <<1, 2>>, c |-> <<3, 4>>],
     [id |-> Bob, k |-> <<>>, c |-> <<>>],
     [id |-> <<"carol">>, k |-> <<255>>, c |-> <<15>>],
     [id |-> <<"carol">>, k |-> <<15, 240, 170>>, c |-> <<255, 255, 85>>]}

SampleLine(d) ==
    Envelope(MsgKeyword, d.id, HexEncodeToString(d.k) \o <<BAR>> \o HexEncodeToString(d.c))

\* MESSAGE lines whose key and ciphertext differ in length
MismatchLines ==
    {Envelope(MsgKeyword, Bob, HexEncodeToString(d[1]) \o <<BAR>> \o HexEncodeToString(d[2])) :
       d \in {<<<<1>>, <<2, 3>>>>, <<<<1, 2>>, <<3>>>>}}

\* payloads with a |, sent both as MESSAGE and as BROADCAST: decodable, key not hex,
\* ciphertext of odd length, lengths that differ, both parts empty, a second |
XorPayloads ==
    {<<"0", "1", "0", "2", BAR, "0", "3", "0", "4">>,
     <<"0", "g", BAR, "0", "3">>,
     <<"0", "1", BAR, "0", "3", "0">>,
     <<"0", "1", BAR, "0", "2", "0", "3">>,
     <<BAR>>,
     <<"0", "1", BAR, "0", "2", BAR, "0", "3">>}

XorPayloadLines ==
    {Line(Envelope(kw, Bob, p)) : kw \in {MsgKeyword, BcastKeyword}, p \in XorPayloads}

DirectLines ==
    {Line(SampleLine(d)) : d \in DirectSamples} \cup {Line(m) : m \in MismatchLines} \cup
    {Line(Envelope(MsgKeyword, Bob, <<"0", "1", "0", "2", BAR, "0", "3", "0", "4">>)),
     LineCRLF(Envelope(MsgKeyword, <<"carol">>, <<"f", "F", BAR, "0", "f">>)),
     Line(Envelope(MsgKeyword, Bob, <<"0", "g", BAR, "0", "3">>)),
     Line(Envelope(MsgKeyword, Bob, <<"0", "1", BAR, "0", "3", "0">>)),
     Line(Envelope(MsgKeyword, Bob, <<"0", "1", "0", "2">>)),
     Line(<<MsgKeyword, SP, "bob">>)}

\* BROADCAST lines whose payload has no | and is not hex: a character that is no
\* hex digit, an odd number of digits
BadHexPayloads == {<<"z", "z">>, <<"0", "g">>, <<"0", "1", "2">>}

BadHexBroadcasts == {Envelope(BcastKeyword, Bob, p) : p \in BadHexPayloads}

BroadcastLines ==
    {Line(m) : m \in BadHexBroadcasts} \cup
    {Line(Envelope(BcastKeyword, Bob, <<"f", "f", BAR, "0", "f">>)),
     Line(Envelope(BcastKeyword, Bob, <<"0", "1", BAR, "0", "2", "0", "3">>)),
     Line(Envelope(BcastKeyword, Bob, <<"0", "1", "0", "2">>)),
     Line(Envelope(BcastKeyword, Bob,
                   HexEncodeToString(encryptAES(SharedSecret, <<104, 105>>, SampleIV).out))),
     Line(Envelope(BcastKeyword, Bob, HexEncodeToString(SampleIV))),
     Line(Envelope(BcastKeyword, Bob, HexEncodeToString(RandBytes(BlockSize + 1, 3)))),
     Line(Envelope(BcastKeyword, Bob,
                   HexEncodeToString(SampleIV \o CBCEncrypt(SharedSecret, SampleIV,
                                                            OverPadded))))}

DecodeLines ==
    DirectLines \cup BroadcastLines \cup XorPayloadLines
    \cup {Line(<<"hello">>), Line(BeginLine), Line(EndLine), Line(RegisteredLine), <<LF>>}

NextDecode == Reader(DecodeLines, MaxDecodeLines) \/ Consumer

DecodeSpec == Init /\ [][NextDecode]_vars

----------------------------------------------------------------------------
(* The Reader on the head of MESSAGE and BROADCAST lines and on other text:   *)
(* the Consumer only receives                                                 *)

MaxEnvelopeLines == 2

XorPayload == <<"0", "1", BAR, "0", "3">>

\* keyword, space, sender, colon, space, payload
WellFormedLines ==
    {Envelope(MsgKeyword, Bob, XorPayload),
     Envelope(MsgKeyword, <<"al", SP, "ice">>, XorPayload),
     Envelope(BcastKeyword, <<"a", COLON, "b">>, XorPayload),
     Envelope(BcastKeyword, Bob,
              HexEncodeToString(encryptAES(SharedSecret, <<104, 105>>, SampleIV).out))}

\* the keyword not followed by a space: MESSAGE from: 01|03, BROADCAST frombob: 01|03
NoSpaceLines ==
    {<<MsgKeyword, COLON, SP>> \o XorPayload,
     <<BcastKeyword, "bob", COLON, SP>> \o XorPayload}

\* the keyword and no colon-space after it
NoSeparatorLines ==
    {<<MsgKeyword, SP, "bob">>,
     <<MsgKeyword>>,
     <<BcastKeyword, SP, "bob", COLON>> \o XorPayload}

\* text that does not start with either keyword
OtherLines ==
    {<<"hello">>,
     <<SP, "b", SP>>,
     <<"MESSAGE", SP, "bob", COLON, SP>> \o XorPayload,
     <<SP>> \o Envelope(MsgKeyword, Bob, XorPayload)}

EnvelopeLines ==
    {Line(m) : m \in WellFormedLines \cup NoSpaceLines \cup NoSeparatorLines \cup OtherLines}
    \cup {LineCRLF(<<"hello">>), Line(BeginLine)}

NextEnvelope == Reader(EnvelopeLines, MaxEnvelopeLines) \/ Consumer

EnvelopeSpec == Init /\ [][NextEnvelope]_vars

----------------------------------------------------------------------------
(* The Consumer on SEND commands: each command is pasted into the empty input *)
(* field as a whole and entered; the server sends ordinary lines              *)

MaxSends == 2
MaxSendLines == 1

TypedSends ==
    {<<"SEND", SP, "bob", SP, "hi", SP, SP, "ok">>,
     <<SP, "SEND", SP, "carol", SP, "ok", SP>>,
     <<"SEND", SP, "ALL", SP, "hi">>,
     <<"SEND", SP, "bob">>}

SendKeys ==
    \/ KeyQuit
    \/ \E text \in TypedSends : input = <<>> /\ KeyRunes(text)
    \/ Len(history) < MaxSends /\ KeyEnter

NextSend == Reader({Line(<<"hello">>)}, MaxSendLines) \/ Consumer \/ SendKeys

SendSpec == Init /\ [][NextSend]_vars

----------------------------------------------------------------------------
(* The Consumer on the command history: one-character commands are typed,     *)
(* entered, recalled with Up and Down and edited; the server sends nothing    *)

MaxNavHistory == 3
MaxNavInput == 1

TypedChars == {<<"a">>, <<"b">>, <<SP>>}

HistoryKeys ==
    \/ \E text \in TypedChars : Len(input) + Len(text) <= MaxNavInput /\ KeyRunes(text)
    \/ Len(history) < MaxNavHistory /\ KeyEnter
    \/ KeyUp
    \/ KeyDown
    \/ KeyBackspace

NextHistory ==
    \/ \E op \in BOOLEAN : UpdateConnected(op)
    \/ UpdateErr
    \/ HistoryKeys

HistorySpec == Init /\ [][NextHistory]_vars

----------------------------------------------------------------------------
(* The cipher functions of encryption.go on their own: each step calls one of  *)
(* them on cipherData and, when it returns a buffer, puts that buffer in       *)
(* cipherData, so that a function is also applied to another one's output.     *)

MaxCalls == 2

Call(fn, key, arg, iv, err, panic, out) ==
    [fn |-> fn, key |-> key, arg |-> arg, iv |-> iv, err |-> err, panic |-> panic,
     out |-> out]

CallEncryptAES(key, iv) ==
    /\ LET r == encryptAES(key, cipherData, iv)
       IN /\ cipherCalls' = Append(cipherCalls,
                                   Call("encryptAES", key, cipherData, iv, r.err, FALSE, r.out))
          /\ cipherData' = IF r.err = <<>> THEN r.out ELSE cipherData
    /\ UNCHANGED clientVars

CallDecryptAES(key) ==
    /\ LET r == decryptAES(key, cipherData)
       IN /\ cipherCalls' = Append(cipherCalls,
                                   Call("decryptAES", key, cipherData, <<>>, r.err, r.panic,
                                        r.out))
          /\ cipherData' = IF r.err = <<>> /\ ~r.panic THEN r.out ELSE cipherData
    /\ UNCHANGED clientVars

CallEncryptXOR(key) ==
    /\ LET r == encryptXOR(cipherData, key)
       IN /\ cipherCalls' = Append(cipherCalls,
                                   Call("encryptXOR", key, cipherData, <<>>, <<>>, r.panic, r.out))
          /\ cipherData' = IF ~r.panic THEN r.out ELSE cipherData
    /\ UNCHANGED clientVars

\* keys of the three AES sizes (the last is SharedSecret) and one of no AES size
AesKeys == {[i \in 1..n |-> (7 * i) % 256] : n \in {16, 24, 32}}
CipherKeys == AesKeys \cup {<<1, 2, 3, 4, 5>>}
CipherIVs == {RandBytes(BlockSize, seed) : seed \in RandSeeds}

\* a block that ends in 5 although it carries no padding
EndsInFive == [i \in 1..BlockSize |-> IF i = BlockSize THEN 5 ELSE 65]

\* the buffers the calls start from: plaintexts of 0, 2, 15, 16 and 17 bytes, and
\* ciphertexts of 3, 16, 17 and 32 bytes
CipherInputs ==
    {<<>>, <<104, 105>>, <<3, 3, 3>>,
     [i \in 1..15 |-> 64 + i], [i \in 1..16 |-> 64 + i], [i \in 1..17 |-> 64 + i],
     SampleIV, RandBytes(BlockSize + 1, 3),
     SampleIV \o CBCEncrypt(SharedSecret, SampleIV, OverPadded),
     SampleIV \o CBCEncrypt(SharedSecret, SampleIV, EndsInFive)}

\* one-time-pad keys for the buffer: of its length, one byte shorter, one byte longer
XorKeys ==
    {RandBytes(n, seed) : n \in {Len(cipherData) - 1, Len(cipherData), Len(cipherData) + 1}
                                \cap Nat,
                          seed \in {77, 255}}

CipherInit == NotConnected /\ cipherData \in CipherInputs /\ cipherCalls = <<>>

CipherNext ==
    \/ \E key \in CipherKeys, iv \in CipherIVs :
         Len(cipherCalls) < MaxCalls /\ CallEncryptAES(key, iv)
    \/ \E key \in CipherKeys : Len(cipherCalls) < MaxCalls /\ CallDecryptAES(key)
    \/ \E key \in XorKeys : Len(cipherCalls) < MaxCalls /\ CallEncryptXOR(key)

CipherSpec == CipherInit /\ [][CipherNext]_vars

----------------------------------------------------------------------------
(* Properties.  log[i] is the i-th read of the Reader: the line as read, the   *)
(* messages that iteration sends, and inMultiLineResponse when it was read.    *)

RawLine(i) == TrimRight(log[i].raw, {CR, LF})
IsLine(i) == log[i].kind = "line"
Sentinels == {RegisteredLine, KickedLine, BannedLine, BeginLine, EndLine}
ReadInNormal(i) == IsLine(i) /\ ~log[i].inML

RECURSIVE Emitted(_)
Emitted(l) == IF l = <<>> THEN <<>> ELSE l[1].evs \o Emitted(Tail(l))

\* BEGIN_RESPONSE read in Normal at i, END_RESPONSE at j, and between them only
\* non-sentinel lines (blank ones among them only if blankToo)
CaptureRun(i, j, blankToo) ==
    /\ i < j
    /\ ReadInNormal(i) /\ RawLine(i) = BeginLine
    /\ IsLine(j) /\ RawLine(j) = EndLine
    /\ \A k \in (i + 1)..(j - 1) :
         IsLine(k) /\ RawLine(k) \notin Sentinels /\ (blankToo \/ RawLine(k) # <<>>)

CaptureResult(i, j) ==
    /\ \A k \in i..(j - 1) : log[k].evs = <<>>
    /\ log[j].evs = <<serverMsg(Join([k \in 1..(j - i - 1) |-> RawLine(i + k)], <<LF>>))>>

\* C1 as stated: BEGIN_RESPONSE in Normal, N non-sentinel lines, END_RESPONSE give no
\* message for the first N + 1 lines and one serverMsg with the N lines joined by
\* newline.  A blank line among the N is dropped by the Reader, so this fails.
C1_AnyInteriorLines ==
    \A i, j \in DOMAIN log : CaptureRun(i, j, TRUE) => CaptureResult(i, j)

\* C1 amended: the same for N non-sentinel lines none of which is blank.
C1_CaptureYieldsJoinedNotice ==
    \A i, j \in DOMAIN log : CaptureRun(i, j, FALSE) => CaptureResult(i, j)

C1_Witness ==
    /\ Len(log) = 4
    /\ CaptureRun(1, 4, FALSE)
    /\ RawLine(2) # RawLine(3)
    /\ received = <<serverMsg(RawLine(2) \o <<LF>> \o RawLine(3))>>

IsEnvelope(i) ==
    HasPrefix(RawLine(i), <<MsgKeyword>>) \/ HasPrefix(RawLine(i), <<BcastKeyword>>)

\* C2 as stated: a MESSAGE or BROADCAST line read in Normal always yields a message
\* (the decoded one, or a serverMsg describing the failure), the Reader goes on, and
\* it stops only after kickedMsg, bannedMsg or disconnectMsg.
C2_DecodeFailureIsANotice ==
    /\ \A i \in DOMAIN log :
         ReadInNormal(i) /\ IsEnvelope(i) =>
            /\ ~log[i].panic
            /\ Len(log[i].evs) = 1
            /\ log[i].evs[1].type \in {"incomingMessage", "serverMsg"}
    /\ readerPc # "panicked"
    /\ readerPc = "done" =>
         log[Len(log)].evs[1].type \in {"kickedMsg", "bannedMsg", "disconnectMsg"}

\* C3 as stated: every non-blank line read in Normal other than BEGIN_RESPONSE and
\* END_RESPONSE yields exactly one message, and no read yields more than one.
C3_OneEventPerNormalLine ==
    \A i \in DOMAIN log :
       /\ Len(log[i].evs) <= 1
       /\ ReadInNormal(i) /\ RawLine(i) \notin {<<>>, BeginLine, EndLine} =>
            Len(log[i].evs) = 1

\* C9: a line MESSAGE from <id>: hex(k)|hex(c) read in Normal, k and c of equal
\* length, yields exactly one incomingMessage, not a broadcast, with senderID <id>
\* and content c[n] XOR k[n] for every n; key 0102 and ciphertext 0304 from bob
\* give 02 06.
C9_DirectMessageIsXorOfKeyAndCiphertext ==
    \A i \in DOMAIN log :
       /\ \A d \in DirectSamples :
            ReadInNormal(i) /\ RawLine(i) = SampleLine(d) =>
               log[i].evs = <<incomingMessage(d.id, [n \in 1..Len(d.c) |-> BXor(d.c[n], d.k[n])],
                                              FALSE)>>
       /\ ReadInNormal(i)
          /\ RawLine(i) = <<MsgKeyword, SP, "bob", COLON, SP,
                            "0", "1", "0", "2", BAR, "0", "3", "0", "4">> =>
               log[i].evs = <<incomingMessage(<<"bob">>, <<2, 6>>, FALSE)>>

C9_Witness ==
    /\ Len(log) = 2
    /\ \A i \in 1..2 : ReadInNormal(i) /\ \E d \in DirectSamples : RawLine(i) = SampleLine(d)
    /\ RawLine(1) # RawLine(2)
    /\ Len(received) = 2
    /\ received[1].bytes = <<2, 6>>

\* C10: a MESSAGE line with key and ciphertext of different lengths, read in Normal,
\* yields exactly one serverMsg and no incomingMessage, encryptXOR is not called, the
\* Reader keeps running, and an ordinary line read next yields its serverMsg.
C10_LengthMismatchIsANotice ==
    \A i \in DOMAIN log :
       ReadInNormal(i) /\ RawLine(i) \in MismatchLines =>
          /\ Len(log[i].evs) = 1
          /\ log[i].evs[1].type = "serverMsg"
          /\ log[i].xor = <<>>
          /\ ~log[i].panic
          /\ i = Len(log) => readerPc \in {"send", "read"}
          /\ i < Len(log) /\ IsLine(i + 1) /\ RawLine(i + 1) = <<"hello">> =>
               log[i + 1].evs = <<serverMsg(<<"hello">>)>>

C10_Witness ==
    /\ Len(log) = 2
    /\ ReadInNormal(1) /\ RawLine(1) \in MismatchLines
    /\ IsLine(2) /\ RawLine(2) = <<"hello">>
    /\ Len(received) = 2
    /\ received[1].type = "serverMsg"
    /\ received[2] = serverMsg(<<"hello">>)

IsLast(i) == i = Len(log)

\* the Reader has sent or is sending the one message of its last read and does
\* nothing after it
StoppedWith(msg) ==
    \/ readerPc = "send" /\ pending = <<msg>>
    \/ readerPc = "done" /\ pending = <<>>

\* C4: reading the KICKED (BANNED) sentinel, in either state, yields exactly one
\* kickedMsg (bannedMsg), and that read is the Reader's last: it reads nothing and
\* sends nothing after it, whatever else the stream holds.
C4_KickedOrBannedStopsReader ==
    \A i \in DOMAIN log :
       /\ IsLine(i) /\ RawLine(i) = KickedLine =>
            log[i].evs = <<kickedMsg>> /\ IsLast(i) /\ StoppedWith(kickedMsg)
       /\ IsLine(i) /\ RawLine(i) = BannedLine =>
            log[i].evs = <<bannedMsg>> /\ IsLast(i) /\ StoppedWith(bannedMsg)

C4_Witness ==
    /\ log # <<>> /\ Len(log) < MaxLines
    /\ IsLine(Len(log)) /\ RawLine(Len(log)) = KickedLine
    /\ readerPc = "done"
    /\ received # <<>> /\ received[Len(received)] = kickedMsg
    /\ prog = "exited"

\* C5: a failed read, in either state, yields exactly one disconnectMsg, and that
\* read is the Reader's last: it reads nothing and sends nothing after it.
C5_ReadFailureStopsReader ==
    \A i \in DOMAIN log :
       log[i].kind = "error" =>
          log[i].evs = <<disconnectMsg>> /\ IsLast(i) /\ StoppedWith(disconnectMsg)

C5_Witness ==
    /\ log # <<>> /\ Len(log) < MaxLines
    /\ log[Len(log)].kind = "error" /\ log[Len(log)].inML
    /\ readerPc = "done"
    /\ received # <<>> /\ received[Len(received)] = disconnectMsg

\* C6: whenever a message the Reader produced has not been taken from messageChan,
\* the Reader is blocked in the send; it is at ReadString only when everything it
\* produced has been received and nothing is left in the channel.
C6_ReaderBlockedWhileUndelivered ==
    /\ received # Emitted(log) => readerPc = "send"
    /\ readerPc = "read" => pending = <<>> /\ chanBuf = <<>>

C6_Witness ==
    /\ readerPc = "send"
    /\ waiting = 0
    /\ inflight # <<>>
    /\ Len(log) = 2 /\ IsLine(2)
    /\ received = log[1].evs
    /\ prog = "running"

\* C7: at most one waitForServerMessage command is outstanding and at most one
\* message is between the channel and Update, never both; handling a key adds none.
C7_OneRequestOneEventInFlight ==
    /\ waiting <= 1
    /\ Len(inflight) + Len(chanBuf) <= 1
    /\ waiting = 1 => inflight = <<>>

C7_Witness ==
    /\ Len(inflight) = 1
    /\ waiting = 0
    /\ input # <<>>
    /\ Len(received) = 2
    /\ prog = "running"

\* C11: a BROADCAST line whose payload has no | and is not valid hex, read in Normal,
\* yields exactly one serverMsg with the text "Error decoding broadcast from <id>: "
\* and the decoder's error, and no incomingMessage; decryptAES is not called, and the
\* Reader keeps running: an ordinary line read next yields its serverMsg.
C11_BadHexBroadcastIsANotice ==
    \A i \in DOMAIN log :
       ReadInNormal(i) /\ RawLine(i) \in BadHexBroadcasts =>
          /\ Len(log[i].evs) = 1
          /\ log[i].evs[1].type = "serverMsg"
          /\ HasPrefix(log[i].evs[1].content,
                       <<"Error decoding broadcast from ">> \o Bob \o <<": ">>)
          /\ \E t \in {"encoding/hex: invalid byte: ", "encoding/hex: odd length hex string"} :
                log[i].evs[1].content[4] = t
          /\ log[i].aes = <<>>
          /\ ~log[i].panic
          /\ i = Len(log) => readerPc \in {"send", "read"}
          /\ i < Len(log) /\ IsLine(i + 1) /\ RawLine(i + 1) = <<"hello">> =>
               log[i + 1].evs = <<serverMsg(<<"hello">>)>>

C11_Witness ==
    /\ Len(log) = 2
    /\ ReadInNormal(1) /\ RawLine(1) = Envelope(BcastKeyword, Bob, <<"0", "1", "2">>)
    /\ IsLine(2) /\ RawLine(2) = <<"hello">>
    /\ Len(received) = 2
    /\ received[1] = serverMsg(<<"Error decoding broadcast from ", "bob", ": ",
                                 "encoding/hex: odd length hex string">>)
    /\ received[2] = serverMsg(<<"hello">>)

\* the payload of a line sender: payload
HasPayload(i) == Len(SplitN2(RawLine(i), <<COLON, SP>>)) = 2
Payload(i) == SplitN2(RawLine(i), <<COLON, SP>>)[2]
HasBar(p) == \E k \in DOMAIN p : p[k] = BAR
IsBroadcastLine(i) == HasPrefix(RawLine(i), <<BcastKeyword>>) /\ HasPayload(i)
IsMessageLine(i) == HasPrefix(RawLine(i), <<MsgKeyword>>) /\ HasPayload(i)

\* what a notice of the XOR form reports, without the words that name the sender
FailureKind(content) ==
    CASE content[1] \in {"Invalid broadcast message format from ",
                         "Invalid message format from "} -> <<"format">>
      [] content[1] \in {"Error decoding key from broadcast from ",
                         "Error decoding key from "} ->
            <<"key">> \o SubSeq(content, 4, Len(content))
      [] content[1] \in {"Error decoding ciphertext from broadcast from ",
                         "Error decoding ciphertext from "} ->
            <<"ciphertext">> \o SubSeq(content, 4, Len(content))
      [] content[1] \in {"Key and ciphertext lengths do not match in broadcast from ",
                         "Key and ciphertext lengths do not match from "} -> <<"lengths">>
      [] OTHER -> <<"other", content[1]>>

\* the outcome of a read: the plaintext, or the kind of failure
Outcome(l) ==
    IF l.panic THEN <<"panic">>
    ELSE IF Len(l.evs) # 1 THEN <<"events", Len(l.evs)>>
    ELSE IF l.evs[1].type = "incomingMessage" THEN <<"plaintext", l.evs[1].bytes>>
    ELSE IF l.evs[1].type = "serverMsg" THEN <<"failure">> \o FailureKind(l.evs[1].content)
    ELSE <<"other">>

XorFormOutcome(l) ==
    /\ l.aes = <<>>
    /\ Outcome(l)[1] \in {"plaintext", "failure"}
    /\ Outcome(l)[1] = "plaintext" => l.evs[1].isBroadcast /\ Len(l.xor) = 1
    /\ Outcome(l)[1] = "failure" => Outcome(l)[2] \in {"key", "ciphertext", "lengths"}

BlockFormOutcome(l) ==
    /\ l.xor = <<>>
    /\ \/ Len(l.aes) = 1
       \/ /\ l.aes = <<>>
          /\ Len(l.evs) = 1 /\ l.evs[1].type = "serverMsg"
          /\ l.evs[1].content[1] = "Error decoding broadcast from "

\* C12: a BROADCAST payload read in Normal is decoded as key|ciphertext if it has a |
\* and as a block-cipher text under the shared secret if it has none, never both; with
\* a | its outcome (the plaintext or the kind of failure) is that of the MESSAGE line
\* with the same payload; decryptAES is never called for a MESSAGE line.
C12_BroadcastFormBySeparator ==
    \A i \in DOMAIN log :
       /\ ReadInNormal(i) /\ IsBroadcastLine(i) /\ HasBar(Payload(i)) => XorFormOutcome(log[i])
       /\ ReadInNormal(i) /\ IsBroadcastLine(i) /\ ~HasBar(Payload(i)) => BlockFormOutcome(log[i])
       /\ ReadInNormal(i) /\ HasPrefix(RawLine(i), <<MsgKeyword>>) => log[i].aes = <<>>
       /\ \A j \in DOMAIN log :
            /\ ReadInNormal(i) /\ IsBroadcastLine(i) /\ HasBar(Payload(i))
            /\ ReadInNormal(j) /\ IsMessageLine(j) /\ Payload(j) = Payload(i)
            => Outcome(log[i]) = Outcome(log[j])

C12_Witness ==
    /\ Len(log) = 2
    /\ ReadInNormal(1) /\ IsBroadcastLine(1) /\ ReadInNormal(2) /\ IsMessageLine(2)
    /\ Payload(1) = <<"0", "1", "0", "2", BAR, "0", "3", "0", "4">>
    /\ Payload(2) = Payload(1)
    /\ received = <<incomingMessage(Bob, <<2, 6>>, TRUE), incomingMessage(Bob, <<2, 6>>, FALSE)>>

\* a broadcast without | that reached decryptAES, then one with | whose ciphertext
\* is not hex
C12_WitnessBothForms ==
    /\ Len(log) = 2
    /\ ReadInNormal(1) /\ IsBroadcastLine(1) /\ ~HasBar(Payload(1)) /\ Len(log[1].aes) = 1
    /\ log[1].evs = <<incomingMessage(Bob, <<104, 105>>, TRUE)>>
    /\ ReadInNormal(2) /\ IsBroadcastLine(2) /\ HasBar(Payload(2))
    /\ Outcome(log[2]) = <<"failure", "ciphertext", "encoding/hex: invalid byte: ", BAR>>

IsCall(i, fn) == cipherCalls[i].fn = fn
ValidAesKey(key) == Len(key) \in {16, 24, 32}

\* the padding removal as described: as many trailing bytes as the last byte says
StripPadding(plain) == SubSeq(plain, 1, Len(plain) - plain[Len(plain)])

\* C13 as stated: decryptAES under a valid key returns an error for a ciphertext of
\* fewer than 16 bytes, and for every ciphertext of 16 bytes or more returns, without
\* error, the CBC decryption of what follows the IV less as many trailing bytes as
\* its last byte says.
C13_DecryptStripsByLastByte ==
    \A i \in DOMAIN cipherCalls :
       IsCall(i, "decryptAES") /\ ValidAesKey(cipherCalls[i].key) =>
          LET c == cipherCalls[i]
          IN /\ Len(c.arg) < BlockSize => c.err # <<>> /\ ~c.panic
             /\ Len(c.arg) >= BlockSize =>
                  /\ c.err = <<>>
                  /\ ~c.panic
                  /\ c.out = StripPadding(CBCDecrypt(c.key, SubSeq(c.arg, 1, BlockSize),
                                                     SubSeq(c.arg, BlockSize + 1, Len(c.arg))))

\* a corrupted last byte that is within the data is not detected
C13_SilentMisTruncation ==
    /\ Len(cipherCalls) = 1 /\ IsCall(1, "decryptAES")
    /\ cipherCalls[1].key = SharedSecret
    /\ cipherCalls[1].err = <<>> /\ ~cipherCalls[1].panic
    /\ cipherCalls[1].out = SubSeq(EndsInFive, 1, 11)

\* C14: for every key of 16, 24 or 32 bytes and every plaintext p, the empty one and
\* one of exactly 16 bytes included, decryptAES(k, encryptAES(k, p)) returns p
\* without error.
C14_DecryptInvertsEncrypt ==
    \A i \in DOMAIN cipherCalls :
       /\ i < Len(cipherCalls)
       /\ IsCall(i, "encryptAES") /\ ValidAesKey(cipherCalls[i].key)
       /\ IsCall(i + 1, "decryptAES") /\ cipherCalls[i + 1].key = cipherCalls[i].key
       => /\ cipherCalls[i].err = <<>>
          /\ cipherCalls[i + 1].arg = cipherCalls[i].out
          /\ cipherCalls[i + 1].err = <<>>
          /\ ~cipherCalls[i + 1].panic
          /\ cipherCalls[i + 1].out = cipherCalls[i].arg

C14_Witness ==
    /\ Len(cipherCalls) = 2
    /\ IsCall(1, "encryptAES") /\ IsCall(2, "decryptAES")
    /\ Len(cipherCalls[1].key) = 24 /\ cipherCalls[2].key = cipherCalls[1].key
    /\ Len(cipherCalls[1].arg) = BlockSize
    /\ Len(cipherCalls[1].out) = 3 * BlockSize
    /\ cipherData = cipherCalls[1].arg

\* C15: for a message m and a key k of the same length, encryptXOR(m, k) has the
\* length of m and encryptXOR(encryptXOR(m, k), k) is m.
C15_XorIsItsOwnInverse ==
    \A i \in DOMAIN cipherCalls :
       IsCall(i, "encryptXOR") /\ Len(cipherCalls[i].key) = Len(cipherCalls[i].arg) =>
          /\ ~cipherCalls[i].panic
          /\ Len(cipherCalls[i].out) = Len(cipherCalls[i].arg)
          /\ i < Len(cipherCalls) /\ IsCall(i + 1, "encryptXOR")
             /\ cipherCalls[i + 1].key = cipherCalls[i].key
             => /\ cipherCalls[i + 1].arg = cipherCalls[i].out
                /\ cipherCalls[i + 1].out = cipherCalls[i].arg

C15_Witness ==
    /\ Len(cipherCalls) = 2
    /\ IsCall(1, "encryptXOR") /\ IsCall(2, "encryptXOR")
    /\ cipherCalls[1].arg = <<104, 105>>
    /\ cipherCalls[1].key = RandBytes(2, 77)
    /\ cipherCalls[2].key = cipherCalls[1].key
    /\ cipherCalls[1].out # cipherCalls[1].arg
    /\ cipherData = <<104, 105>>

\* a command SEND <recipient> <text> with a recipient other than ALL
IsDirectSend(cmd) ==
    LET f == Fields(cmd)
    IN Len(f) >= 3 /\ f[1] = <<"SEND">> /\ f[2] # <<"ALL">>

\* w is SEND <recipient> hex(key)|hex(ciphertext) for the text of cmd: the key has
\* the length of the plaintext, the ciphertext is plaintext XOR key, and the Reader's
\* decoding of the payload as a direct message gives the plaintext back
DirectWire(cmd, w) ==
    LET f == Fields(cmd)
        plaintext == TextBytes(Join(SubSeq(f, 3, Len(f)), <<SP>>))
        n == Len(plaintext)
        head == <<"SEND", SP>> \o f[2] \o <<SP>>
        payload == SubSeq(w, Len(head) + 1, Len(w) - 1)
        key == HexDecodeString(SubSeq(payload, 1, 2 * n))
        ciphertext == HexDecodeString(SubSeq(payload, 2 * n + 2, 4 * n + 1))
    IN /\ HasPrefix(w, head)
       /\ w[Len(w)] = LF
       /\ Len(payload) = 4 * n + 1
       /\ payload[2 * n + 1] = BAR
       /\ key.err = <<>> /\ Len(key.bytes) = n
       /\ ciphertext.err = <<>> /\ Len(ciphertext.bytes) = n
       /\ \A j \in 1..n : ciphertext.bytes[j] = BXor(plaintext[j], key.bytes[j])
       /\ DecodeXORPayload(payload, f[2], FALSE, FALSE, <<>>).evs
            = <<incomingMessage(f[2], plaintext, FALSE)>>

\* C16: entering SEND <recipient> <text>, recipient not ALL, on an open connection
\* writes exactly one line, SEND <recipient> hex(key)|hex(ciphertext), where the key
\* has the length of the text, ciphertext = text XOR key, and decoding the payload as
\* a direct message recovers the text.
C16_DirectSendIsKeyBarCiphertext ==
    [][(history' # history /\ IsDirectSend(TrimSpace(input)) /\ conn = "open")
       => /\ Len(sent') = Len(sent) + 1
          /\ SubSeq(sent', 1, Len(sent)) = sent
          /\ DirectWire(TrimSpace(input), sent'[Len(sent')])]_vars

C16_Witness ==
    /\ Len(history) = 2 /\ Len(sent) = 2
    /\ history[1] = <<"SEND", SP, "carol", SP, "ok">>
    /\ history[2] = <<"SEND", SP, "bob", SP, "hi", SP, SP, "ok">>
    /\ DirectWire(history[1], sent[1])
    /\ DirectWire(history[2], sent[2])
    /\ sent[1] = <<"SEND", SP, "carol", SP, "9", "a", "e", "7", BAR, "f", "5", "8", "c", LF>>
    /\ Len(sent[2]) = 4 + 21 + 1

\* the lines that are empty once trailing CR and LF are stripped
BlankLines == {<<LF>>, <<CR, LF>>}

ReadsBlankLine ==
    /\ Len(log') = Len(log) + 1
    /\ log'[Len(log')].kind = "line"
    /\ log'[Len(log')].raw \in BlankLines

\* C17: reading a blank line sends no message and leaves inMultiLineResponse and
\* multiLineBuffer as they were, in Normal and while collecting (where the line is
\* not appended); the Reader goes on to the next read.
C17_BlankLineChangesNothing ==
    [][ReadsBlankLine
       => /\ log'[Len(log')].evs = <<>>
          /\ pending' = <<>>
          /\ inMultiLineResponse' = inMultiLineResponse
          /\ multiLineBuffer' = multiLineBuffer
          /\ received' = received
          /\ readerPc' = "read"]_vars

C17_Witness ==
    /\ Len(log) = 4
    /\ RawLine(1) = BeginLine /\ ReadInNormal(1)
    /\ RawLine(2) = <<"a">>
    /\ log[3].raw = <<CR, LF>> /\ log[3].inML /\ log[3].evs = <<>>
    /\ log[4].raw = <<LF>> /\ log[4].inML
    /\ inMultiLineResponse
    /\ multiLineBuffer = <<<<"a">>>>
    /\ readerPc = "read"

Navigating == historyIndex # -1
Entry(n) == history[n + 1]

\* C18, its last part as stated: while navigating, the input field shows exactly the
\* history entry at the current index.  Backspace edits the field and leaves the
\* index, so this fails.
C18_InputShowsEntryWhileNavigating ==
    Navigating => input = Entry(historyIndex)

\* with a non-empty history, Up goes from not navigating to the most recent command,
\* otherwise one step back, and stays at the oldest
UpEffect ==
    /\ history' = history
    /\ history = <<>> => UNCHANGED <<historyIndex, input>>
    /\ history # <<>> =>
         /\ ~Navigating => historyIndex' = Len(history) - 1
         /\ Navigating /\ historyIndex > 0 => historyIndex' = historyIndex - 1
         /\ historyIndex = 0 => historyIndex' = 0
         /\ input' = Entry(historyIndex')

\* Down does nothing unless navigating; then it goes one step forward, and from the
\* most recent command to an empty field with navigation off
DownEffect ==
    /\ history' = history
    /\ ~Navigating => UNCHANGED <<historyIndex, input>>
    /\ Navigating /\ historyIndex < Len(history) - 1 =>
         historyIndex' = historyIndex + 1 /\ input' = Entry(historyIndex')
    /\ Navigating /\ historyIndex = Len(history) - 1 =>
         historyIndex' = -1 /\ input' = <<>>

\* C18 amended: Up and Down move through the history as described, and right after
\* an Up or Down that leaves navigation on the input field shows exactly the history
\* entry at the current index; the index, when navigating, is within the history.
C18_HistoryNavigation ==
    [][/\ KeyUp => UpEffect
       /\ KeyDown => DownEffect
       /\ Navigating' => historyIndex' \in 0..(Len(history') - 1)]_vars

C18_Witness ==
    /\ Len(history) = 3
    /\ history[2] # history[1] /\ history[2] # history[3]
    /\ historyIndex = 1
    /\ input = history[2]
    /\ conn = "open"

\* this step reads the line body, ended by LF or CR LF
ReadsLine(body) ==
    /\ Len(log') = Len(log) + 1
    /\ log'[Len(log')].kind = "line"
    /\ log'[Len(log')].raw \in {Line(body), LineCRLF(body)}

\* the read sends msg and nothing else, leaves the capture as it is, and stops or
\* goes on
SentinelEffect(msg, stops) ==
    /\ pending' = <<msg>>
    /\ readerPc' = "send"
    /\ stopAfter' = stops
    /\ inMultiLineResponse' = inMultiLineResponse
    /\ multiLineBuffer' = multiLineBuffer

\* the Reader has returned after the message of its last read, in the middle of a
\* multi-line response that it never reported
StoppedCollecting ==
    /\ readerPc = "done"
    /\ inMultiLineResponse
    /\ \A e \in DOMAIN received : received[e].type # "serverMsg"

\* C19: the REGISTERED, KICKED and BANNED lines are recognised before the capture:
\* read while collecting (as in Normal) they send operatorMsg, kickedMsg, bannedMsg
\* and are not appended to multiLineBuffer; after KICKED or BANNED the Reader returns
\* with inMultiLineResponse still set.
C19_SentinelsBeforeCapture ==
    [][/\ ReadsLine(RegisteredLine) =>
            SentinelEffect(operatorMsg(<<"You are registered as the server operator.">>),
                           FALSE)
       /\ ReadsLine(KickedLine) => SentinelEffect(kickedMsg, TRUE)
       /\ ReadsLine(BannedLine) => SentinelEffect(bannedMsg, TRUE)
       /\ (readerPc' = "done" /\ log'[Len(log')].kind = "line" /\ log'[Len(log')].inML)
            => inMultiLineResponse']_vars

C19_Witness ==
    /\ Len(log) = 4
    /\ RawLine(1) = BeginLine /\ RawLine(2) = <<"a">> /\ RawLine(3) = RegisteredLine
    /\ RawLine(4) = BannedLine
    /\ log[3].inML /\ log[4].inML
    /\ multiLineBuffer = <<<<"a">>>>
    /\ StoppedCollecting
    /\ received = <<operatorMsg(<<"You are registered as the server operator.">>), bannedMsg>>

\* C20 as stated: END_RESPONSE yields the notice with the captured lines only when it
\* is read while collecting; read in Normal it yields nothing, so no captured
\* sequence is reported twice.
C20_NoticeOnlyWhenCollecting ==
    \A i \in DOMAIN log :
       IsLine(i) /\ RawLine(i) = EndLine /\ ~log[i].inML => log[i].evs = <<>>

\* what the Reader does instead: a second END_RESPONSE repeats the notice of the first
C20_NoticeRepeated ==
    /\ Len(log) = 4
    /\ CaptureRun(1, 3, FALSE) /\ RawLine(2) = <<"a">>
    /\ IsLine(4) /\ RawLine(4) = EndLine /\ ~log[4].inML
    /\ received = <<serverMsg(<<"a">>), serverMsg(<<"a">>)>>

\* this step reads a line that is neither blank nor one of the five sentinels
ReadsOrdinaryLine ==
    /\ Len(log') = Len(log) + 1
    /\ log'[Len(log')].kind = "line"
    /\ TrimRight(log'[Len(log')].raw, {CR, LF}) \notin Sentinels \cup {<<>>}

\* C21: while collecting, a line that is no sentinel (a MESSAGE or BROADCAST line
\* included) is appended to multiLineBuffer as it is, less its line ending; nothing
\* is decoded (no encryptXOR, no decryptAES call) and nothing is sent.
C21_CollectingAppendsVerbatim ==
    [][ReadsOrdinaryLine /\ inMultiLineResponse
       => /\ multiLineBuffer'
               = Append(multiLineBuffer, TrimRight(log'[Len(log')].raw, {CR, LF}))
          /\ inMultiLineResponse'
          /\ log'[Len(log')].evs = <<>>
          /\ log'[Len(log')].xor = <<>> /\ log'[Len(log')].aes = <<>>
          /\ ~log'[Len(log')].panic
          /\ pending' = <<>>
          /\ received' = received
          /\ readerPc' = "read"]_vars

C21_Witness ==
    /\ Len(log) = 4
    /\ CaptureRun(1, 4, FALSE)
    /\ HasPrefix(RawLine(2), <<MsgKeyword>>)
    /\ HasPrefix(RawLine(3), <<BcastKeyword>>)
    /\ received = <<serverMsg(<<MsgKeyword, SP, "bob", COLON, SP, "0", "1", BAR, "0", "3", LF,
                                BcastKeyword, SP, "bob", COLON, SP, "z", "z">>)>>

Keywords == {MsgKeyword, BcastKeyword}
StartsWithKeyword(i) == RawLine(i) # <<>> /\ RawLine(i)[1] \in Keywords
HasSeparator(l) == \E k \in 1..(Len(l) - 1) : l[k] = COLON /\ l[k + 1] = SP

\* the text of l in front of its first colon-space
BeforeSeparator(l) ==
    LET k == CHOOSE k \in 1..(Len(l) - 1) :
                /\ l[k] = COLON /\ l[k + 1] = SP
                /\ \A j \in 1..(k - 1) : ~(l[j] = COLON /\ l[j + 1] = SP)
    IN SubSeq(l, 1, k - 1)

\* C22 as stated: the senderID of a decoded message is the text between the keyword
\* with its space (MESSAGE from , BROADCAST from ) and the first colon-space, it does
\* not contain the keyword, and the message is a broadcast exactly for BROADCAST.
C22_SenderIsTextAfterPrefix ==
    \A i \in DOMAIN log :
       ReadInNormal(i) /\ Len(log[i].evs) = 1 /\ log[i].evs[1].type = "incomingMessage" =>
          LET e == log[i].evs[1]
          IN /\ StartsWithKeyword(i)
             /\ BeforeSeparator(RawLine(i)) = <<RawLine(i)[1], SP>> \o e.senderID
             /\ \A k \in DOMAIN e.senderID : e.senderID[k] \notin Keywords
             /\ e.isBroadcast = (RawLine(i)[1] = BcastKeyword)

\* what holds for the lines that have the space after the keyword
C22_WellFormedSender ==
    /\ Len(log) = 2
    /\ RawLine(1) = Envelope(BcastKeyword, <<"a", COLON, "b">>, XorPayload)
    /\ RawLine(2) = Envelope(MsgKeyword, <<"al", SP, "ice">>, XorPayload)
    /\ received = <<incomingMessage(<<"a", COLON, "b">>, <<2>>, TRUE),
                    incomingMessage(<<"al", SP, "ice">>, <<2>>, FALSE)>>

\* C23: in Normal, a line that starts with MESSAGE from or BROADCAST from and has no
\* colon-space yields exactly one serverMsg "Invalid message format. Ignoring.",
\* nothing is decoded, and the Reader goes on; a line that starts with neither and is
\* no sentinel yields one serverMsg whose text is the line itself.
C23_FormatErrorAndCatchAll ==
    \A i \in DOMAIN log :
       /\ ReadInNormal(i) /\ StartsWithKeyword(i) /\ ~HasSeparator(RawLine(i)) =>
            /\ log[i].evs = <<serverMsg(<<"Invalid message format. Ignoring.">>)>>
            /\ log[i].xor = <<>> /\ log[i].aes = <<>> /\ ~log[i].panic
            /\ i = Len(log) => readerPc \in {"send", "read"}
            /\ i < Len(log) /\ IsLine(i + 1) /\ RawLine(i + 1) = <<"hello">> =>
                 log[i + 1].evs = <<serverMsg(<<"hello">>)>>
       /\ ReadInNormal(i) /\ ~StartsWithKeyword(i) /\ RawLine(i) \notin Sentinels \cup {<<>>} =>
            /\ log[i].evs = <<serverMsg(SubSeq(log[i].raw, 1, Len(RawLine(i))))>>
            /\ log[i].xor = <<>> /\ log[i].aes = <<>> /\ ~log[i].panic

C23_Witness ==
    /\ Len(log) = 2
    /\ RawLine(1) = <<BcastKeyword, SP, "bob", COLON>> \o XorPayload
    /\ RawLine(2) = <<SP>> \o Envelope(MsgKeyword, Bob, XorPayload)
    /\ received = <<serverMsg(<<"Invalid message format. Ignoring.">>),
                    serverMsg(RawLine(2))>>
    /\ readerPc = "read"

\* a command SEND ALL <text>
IsBroadcastSend(cmd) ==
    LET f == Fields(cmd)
    IN Len(f) >= 3 /\ f[1] = <<"SEND">> /\ f[2] = <<"ALL">>

\* C24: entering SEND ALL <text> while m.hashedSecret is not 16, 24 or 32 bytes long
\* (it is empty until the connection is made) appends one line "Error encrypting
\* message: ..." to the display, writes nothing, and leaves the connection, the
\* program and the Reader as they are.
C24_EncryptErrorIsShownNotSent ==
    [][(history' # history /\ IsBroadcastSend(TrimSpace(input))
        /\ Len(hashedSecret) \notin {16, 24, 32})
       => /\ Len(messages') = Len(messages) + 1
          /\ SubSeq(messages', 1, Len(messages)) = messages
          /\ messages'[Len(messages')].text[1] = "Error encrypting message: "
          /\ messages'[Len(messages')].text[2] = "crypto/aes: invalid key size "
          /\ sent' = sent
          /\ conn' = conn
          /\ prog' = prog
          /\ UNCHANGED <<readerVars, chanVars>>]_vars

\* the command was entered before the connection was made, and the client then
\* connected and received a line
C24_Witness ==
    /\ history = <<<<"SEND", SP, "ALL", SP, "hi">>>>
    /\ Len(messages) = 4
    /\ messages[1] = Shown(<<"Error encrypting message: ", "crypto/aes: invalid key size ",
                             "0">>, <<>>)
    /\ messages[4] = Shown(<<"hello">>, <<>>)
    /\ sent = <<>>
    /\ conn = "open"
    /\ prog = "running"

\* the two lines Update appends for the connectedMsg
IsConnectLine(n) ==
    /\ n \in DOMAIN messages
    /\ messages[n].text[1] \in
         {"Connected to the server. Type your commands below:",
          "You are the server operator. Type HELP to see available commands.",
          "Type HELP to see available commands."}

\* the number of events Update has handled
Handled == Len(received) - Len(inflight)

\* C25: the events the Reader has emitted, in the order of the lines that produced
\* them, are exactly the events taken from messageChan followed by those still
\* waiting to be sent; the ones taken are handled by Update in that order, each
\* showing its line once; and a Reader that has returned has delivered everything
\* up to and including its terminal event.
C25_EventsInOrderExactlyOnce ==
    /\ Emitted(log) = received \o chanBuf \o pending
    /\ Handled >= 0
    /\ inflight = SubSeq(received, Handled + 1, Len(received))
    /\ received # <<>> =>
         /\ Len(messages) = 2 + Handled
         /\ IsConnectLine(1) /\ IsConnectLine(2)
         /\ \A i \in 1..Handled : messages[2 + i] = ShownFor(received[i])
    /\ \A i \in 1..(Len(received) - 1) : ~Terminal(received[i].type)
    /\ readerPc = "done" =>
         /\ received = Emitted(log)
         /\ Terminal(received[Len(received)].type)

\* three lines were read, the last of them the KICKED sentinel, and the three
\* events were handled one after the other
C25_Witness ==
    /\ readerPc = "done"
    /\ Len(log) = 3
    /\ Len(received) = 3
    /\ received[1].type = "serverMsg"
    /\ received[2].type = "incomingMessage"
    /\ received[3].type = "kickedMsg"
    /\ inflight = <<>>
    /\ Len(messages) = 5
    /\ messages[5] = ShownFor(received[3])

\* the lines accumulated while collecting and neither reported nor discarded when
\* read j begins: none after BEGIN_RESPONSE and after END_RESPONSE
RECURSIVE Accumulated(_)
Accumulated(j) ==
    IF j <= 1 THEN <<>>
    ELSE LET p == j - 1
         IN IF ~IsLine(p) \/ RawLine(p) \in {BeginLine, EndLine} THEN <<>>
            ELSE IF log[p].inML /\ RawLine(p) \notin Sentinels \cup {<<>>}
            THEN Append(Accumulated(p), RawLine(p))
            ELSE Accumulated(p)

ReadsEnd(j) == IsLine(j) /\ RawLine(j) = EndLine

\* C26 as stated: the accumulated lines reach the Consumer only in the notice of the
\* next END_RESPONSE (which carries exactly them), no other read made while
\* collecting sends a serverMsg, and what a second BEGIN_RESPONSE, KICKED, BANNED or
\* a read failure cut short appears in no message.
C26_AccumulatedOnlyInNextNotice ==
    \A j \in DOMAIN log :
       /\ ReadsEnd(j) => log[j].evs = <<serverMsg(Join(Accumulated(j), <<LF>>))>>
       /\ (log[j].inML /\ ~ReadsEnd(j)) =>
             \A e \in DOMAIN log[j].evs : log[j].evs[e].type # "serverMsg"

\* the part that holds: a second BEGIN_RESPONSE discards what was accumulated
C26_DiscardedBySecondBegin ==
    /\ Len(log) = 4
    /\ RawLine(1) = BeginLine /\ RawLine(2) = <<"a">> /\ RawLine(3) = BeginLine
    /\ RawLine(4) = EndLine
    /\ received = <<serverMsg(<<>>)>>

\* C27 as stated: handleInput writes a line to the connection only after the
\* connectedMsg has set m.conn, and a command entered before that never uses the nil
\* connection (which in Go is a run-time panic in fmt.Fprintf).
C27_NeverUsesNilConn ==
    /\ sent # <<>> => ~connecting
    /\ ~(conn = "nil" /\ prog = "panicked")

\* what happens instead: EXIT entered before the connection is made ends the
\* program in a panic, with the Reader never started
C27_PanicBeforeConnected ==
    /\ history = <<<<"EXIT">>>>
    /\ conn = "nil"
    /\ connecting
    /\ readerPc = "idle"
    /\ prog = "panicked"
    /\ sent = <<>>

\* C28: the history index is always -1 or the index of an entry of the history, and
\* Enter resets it to -1 and appends the (trimmed) input it hands to handleInput to
\* the history exactly when that input is not empty.
C28_HistoryIndexInRange ==
    [][/\ historyIndex \in -1..(Len(history) - 1)
       /\ historyIndex' \in -1..(Len(history') - 1)
       /\ KeyEnter =>
            /\ historyIndex' = -1
            /\ history' = IF TrimSpace(input) # <<>>
                          THEN Append(history, TrimSpace(input)) ELSE history]_vars

\* a command was recalled with Up and entered again, and one more was entered
\* after it
C28_Witness ==
    /\ Len(history) = 3
    /\ history[1] = history[2] /\ history[3] # history[1]
    /\ historyIndex = -1
    /\ input = <<>>
    /\ conn = "open"
    /\ prog = "running"

ConsumerClosedSocket == conn = "closed" /\ readerPc \in {"read", "send"}

\* C8 as stated: once the Consumer has closed the socket under a running Reader, the
\* Reader eventually returns.
C8_ReaderTerminatesAfterClose == ConsumerClosedSocket ~> (readerPc = "done")

====
